---- MODULE Spec2Model ----
(***************************************************************************)
(* QueryBuilder of super-orm (lib/query.js).                               *)
(*                                                                         *)
(* A builder is the object `this`: the table name, the execution callback  *)
(* and the accumulator this._data.  Every method of the class is one       *)
(* operator on the accumulator (named as the method) and one action that   *)
(* applies it to the builder.                                              *)
(*                                                                         *)
(* SQL text is a sequence of lexical pieces.  A blank is the piece " ", a  *)
(* line feed the piece "\n", and the identifier quote U+0060 is the piece  *)
(* BQ; the empty string is the empty sequence.  String concatenation and   *)
(* template literals are \o, Array.join is Join, String.trim is Trim.      *)
(*                                                                         *)
(* JavaScript values that are not always strings are tagged records:       *)
(* Undefined, Null, Num(n), Str(text), Obj(pairs), Arr(items).             *)
(***************************************************************************)
EXTENDS Integers, Sequences, FiniteSets, TLC

VARIABLES tableName, execCallback, d, lastCall, returned, execArgs, sqlArg,
          orderedBefore

vars == <<tableName, execCallback, d, lastCall, returned, execArgs, sqlArg,
          orderedBefore>>

(* ------------------------------ bounds -------------------------------- *)

MaxRows == 1

MaxConditions == 2

(* --------------------------- JavaScript values ------------------------ *)

Undefined == [t |-> "undefined"]

Null == [t |-> "null"]

Num(n) == [t |-> "num", v |-> n]

Str(s) == [t |-> "str", s |-> s]

Obj(pairs) == [t |-> "obj", pairs |-> pairs]

Arr(items) == [t |-> "arr", items |-> items]

Function == [t |-> "function"]

\* truthiness, as used by assert.ok(value) and if (value)
Truthy(v) ==
  CASE v.t = "undefined" -> FALSE
    [] v.t = "null" -> FALSE
    [] v.t = "num" -> v.v # 0
    [] v.t = "str" -> v.s # <<>>
    [] OTHER -> TRUE

\* typeof value
TypeOf(v) ==
  CASE v.t = "undefined" -> "undefined"
    [] v.t = "num" -> "number"
    [] v.t = "str" -> "string"
    [] v.t = "function" -> "function"
    [] OTHER -> "object"

\* `${ value }` inside a template literal
Interpolate(v) ==
  CASE v.t = "undefined" -> <<"undefined">>
    [] v.t = "null" -> <<"null">>
    [] v.t = "num" -> <<ToString(v.v)>>
    [] v.t = "str" -> v.s
    [] OTHER -> <<"[object Object]">>

\* the keys of an object, in insertion order
Keys(pairs) == [i \in DOMAIN pairs |-> pairs[i][1]]

HasKey(pairs, k) == \E i \in DOMAIN pairs : pairs[i][1] = k

\* object[k]: the value of the property k, undefined when it is absent
Get(pairs, k) ==
  IF HasKey(pairs, k)
    THEN (pairs[CHOOSE i \in DOMAIN pairs : pairs[i][1] = k])[2]
    ELSE Undefined

(* ------------------------------- text --------------------------------- *)

BQ == "BACKTICK"

Blank == <<" ">>

RECURSIVE Join(_, _)
\* Array.prototype.join: the texts of parts separated by sep
Join(parts, sep) ==
  IF parts = <<>> THEN <<>>
  ELSE IF Len(parts) = 1 THEN parts[1]
  ELSE parts[1] \o sep \o Join(Tail(parts), sep)

IsSpace(piece) == piece \in {" ", "\n"}

RECURSIVE TrimStart(_)
TrimStart(s) ==
  IF s # <<>> /\ IsSpace(Head(s)) THEN TrimStart(Tail(s)) ELSE s

RECURSIVE TrimEnd(_)
TrimEnd(s) ==
  IF s # <<>> /\ IsSpace(s[Len(s)]) THEN TrimEnd(SubSeq(s, 1, Len(s) - 1)) ELSE s

\* String.prototype.trim
Trim(s) == TrimEnd(TrimStart(s))

RECURSIVE Flatten(_)
\* the concatenation of a sequence of texts
Flatten(parts) ==
  IF parts = <<>> THEN <<>> ELSE Head(parts) \o Flatten(Tail(parts))

(* ------------- escaping and templating primitives (./utils) ----------- *)

\* escapeIdentifier: the name between identifier quotes
sqlEscapeId(name) == <<BQ, name, BQ>>

\* escapeLiteral: a number in decimal, a string between single quotes,
\* null and undefined as NULL
sqlEscape(v) ==
  CASE v.t = "num" -> <<ToString(v.v)>>
    [] v.t = "str" -> <<"'">> \o v.s \o <<"'">>
    [] OTHER -> <<"NULL">>

RECURSIVE sqlFormat(_, _)
\* renderTemplate: each "?" of tpl, left to right, becomes the escaped next
\* value; a "?" without a value stays
sqlFormat(tpl, values) ==
  IF tpl = <<>> THEN <<>>
  ELSE IF Head(tpl) = "?" /\ values # <<>>
    THEN sqlEscape(Head(values)) \o sqlFormat(Tail(tpl), Tail(values))
    ELSE <<Head(tpl)>> \o sqlFormat(Tail(tpl), values)

\* renderTemplateNamed: the piece ":name" becomes the escaped values[name]
\* when values has the property name; every other piece stays.  values is
\* keyed by the placeholder piece.
sqlFormatObject(tpl, values) ==
  Flatten([i \in DOMAIN tpl |->
             IF tpl[i] \in DOMAIN values THEN sqlEscape(values[tpl[i]])
                                         ELSE <<tpl[i]>>])

\* renderUpdateAssignments: `a`=1, `b`=2
sqlUpdateString(pairs) ==
  Join([i \in DOMAIN pairs |->
          sqlEscapeId(pairs[i][1]) \o <<"=">> \o sqlEscape(pairs[i][2])],
       <<",", " ">>)

MaxUint64 == "18446744073709551615"

\* rows > 0 after conversion to a number: undefined and a text that is not a
\* numeral convert to NaN, the empty string to 0, and neither is > 0
IsPositive(v) == v.t = "num" /\ v.v > 0

\* renderLimitClause
sqlLimitString(skip_, limit_) ==
  IF IsPositive(limit_)
    THEN IF IsPositive(skip_)
           THEN <<"LIMIT", " ", ToString(skip_.v), ",", ToString(limit_.v)>>
           ELSE <<"LIMIT", " ", ToString(limit_.v)>>
    ELSE IF IsPositive(skip_)
           THEN <<"LIMIT", " ", ToString(skip_.v), ",", MaxUint64>>
           ELSE <<>>

(* --------------------------- call outcomes ---------------------------- *)

Ok(data) == [d |-> data, result |-> "ok"]

\* a failed assert.ok: the accumulator is as the method left it
AssertionError(data) == [d |-> data, result |-> "AssertionError"]

TypeError(data) == [d |-> data, result |-> "TypeError"]

(* ----------------------------- constructor ---------------------------- *)

\* this._data after construction
InitialData ==
  [ fields |-> <<"*">>,
    conditions |-> <<>>,
    type |-> "",
    update |-> Null,
    insert |-> Null,
    delete |-> Null,
    sql |-> Null,
    orderFields |-> <<>>,
    orderBy |-> <<>>,
    skipRows |-> 0,
    limitRows |-> 0,
    limit |-> <<>> ]

\* the value of this._tableName while no statement has assigned it
NoTable == ""

\* constructor(options) storing options.exec without looking at its type
constructor_noExecCheck(options) ==
  IF ~Truthy(options.table)
    THEN [result |-> "AssertionError", tableName |-> NoTable, execCallback |-> Null]
  ELSE IF TypeOf(options.table) # "string"
    THEN [result |-> "AssertionError", tableName |-> NoTable, execCallback |-> Null]
    ELSE [result |-> "ok", tableName |-> options.table.s[1],
          execCallback |-> IF Truthy(options.exec) THEN options.exec ELSE Null]

\* constructor(options), options an object with the properties table and
\* exec: the outcome, this._tableName and this._execCallback
constructor(options) ==
  IF ~Truthy(options.table)
    THEN [result |-> "AssertionError", tableName |-> NoTable, execCallback |-> Null]
  ELSE IF TypeOf(options.table) # "string"
    THEN [result |-> "AssertionError", tableName |-> NoTable, execCallback |-> Null]
  ELSE IF Truthy(options.exec) /\ TypeOf(options.exec) # "function"
    THEN [result |-> "AssertionError", tableName |-> options.table.s[1],
          execCallback |-> Null]
    ELSE [result |-> "ok", tableName |-> options.table.s[1],
          execCallback |-> IF Truthy(options.exec) THEN options.exec ELSE Null]

(* ------------------------------- methods ------------------------------ *)

\* the values object of a named template, keyed by the placeholder piece
NamedValues(pairs) ==
  [k \in {":" \o pairs[i][1] : i \in DOMAIN pairs} |->
     (pairs[CHOOSE i \in DOMAIN pairs : ":" \o pairs[i][1] = k])[2]]

\* format(tpl, values), tpl a string
format(tpl, values) ==
  IF ~(Truthy(values) /\ TypeOf(values) = "object") THEN [ok |-> FALSE, s |-> <<>>]
  ELSE IF values.t = "arr" THEN [ok |-> TRUE, s |-> sqlFormat(tpl, values.items)]
  ELSE [ok |-> TRUE, s |-> sqlFormatObject(tpl, NamedValues(values.pairs))]

\* where(condition, values)
where(data, condition, values) ==
  IF ~Truthy(condition) THEN AssertionError(data)
  ELSE IF TypeOf(condition) \notin {"string", "object"} THEN AssertionError(data)
  ELSE IF TypeOf(condition) = "string"
    THEN LET f == format(condition.s, IF Truthy(values) THEN values ELSE Arr(<<>>))
         IN  IF f.ok THEN Ok([data EXCEPT !.conditions = Append(@, f.s)])
                     ELSE AssertionError(data)
    ELSE Ok([data EXCEPT !.conditions = @ \o
               [i \in DOMAIN condition.pairs |->
                  sqlEscapeId(condition.pairs[i][1]) \o <<"=">>
                    \o sqlEscape(condition.pairs[i][2])]])

\* select(...args) starting the statement from an empty list of conditions
select_dropsConditions(data, args) ==
  IF data.type # "" THEN AssertionError(data)
  ELSE LET d1 == [data EXCEPT !.type = "SELECT", !.conditions = <<>>]
       IN  IF \E i \in DOMAIN args : args[i] = ""
             THEN AssertionError(d1)
             ELSE Ok([d1 EXCEPT !.fields =
                        Join([i \in DOMAIN args |-> sqlEscapeId(args[i])], <<",", " ">>)])

\* select(...args), args a sequence of strings
select(data, args) ==
  IF data.type # "" THEN AssertionError(data)
  ELSE LET d1 == [data EXCEPT !.type = "SELECT"]
       IN  IF \E i \in DOMAIN args : args[i] = ""
             THEN AssertionError(d1)
             ELSE Ok([d1 EXCEPT !.fields =
                        Join([i \in DOMAIN args |-> sqlEscapeId(args[i])], <<",", " ">>)])

\* update(update, values)
update(data, upd, values) ==
  IF data.type # "" THEN AssertionError(data)
  ELSE LET d1 == [data EXCEPT !.type = "UPDATE"]
       IN  IF ~Truthy(upd) THEN AssertionError(d1)
           ELSE IF TypeOf(upd) \notin {"string", "object"} THEN AssertionError(d1)
           ELSE IF TypeOf(upd) = "string"
             THEN LET f == format(upd.s, IF Truthy(values) THEN values ELSE Arr(<<>>))
                  IN  IF f.ok THEN Ok([d1 EXCEPT !.update = Str(f.s)])
                              ELSE AssertionError(d1)
             ELSE Ok([d1 EXCEPT !.update = Str(sqlUpdateString(upd.pairs))])

\* the rows insert(data) iterates over
InsertItems(data) == IF data.t = "arr" THEN data.items ELSE <<data>>

\* for (const field in fields): the index strings "0", "1", ... of the array
FieldIndexes(fields) == [i \in DOMAIN fields |-> ToString(i - 1)]

\* one item passes the checks of the loop body
InsertItemOk(item, fields) ==
  /\ Truthy(item) /\ TypeOf(item) = "object"
  /\ \A i \in DOMAIN fields : HasKey(item.pairs, FieldIndexes(fields)[i])

\* `(${ line.join(', ') })`
InsertLine(item, fields) ==
  <<"(">> \o Join([i \in DOMAIN fields |->
                    sqlEscape(Get(item.pairs, FieldIndexes(fields)[i]))],
                  <<",", " ">>) \o <<")">>

\* insert(data)
insert(data, dat) ==
  IF data.type # "" THEN AssertionError(data)
  ELSE LET d1 == [data EXCEPT !.type = "INSERT"]
       IN  IF ~Truthy(dat) THEN AssertionError(d1)
           ELSE IF TypeOf(dat) # "object" THEN AssertionError(d1)
           ELSE IF dat.t = "arr" /\ Len(dat.items) < 1 THEN AssertionError(d1)
           ELSE LET items == InsertItems(dat)
                    first == items[1]
                IN  IF first.t \in {"null", "undefined"} THEN TypeError(d1)
                    ELSE LET fields == IF first.t = "obj"
                                         THEN [i \in DOMAIN first.pairs |->
                                                 sqlEscapeId(first.pairs[i][1])]
                                         ELSE <<>>
                         IN  IF \E i \in DOMAIN items : ~InsertItemOk(items[i], fields)
                               THEN AssertionError(d1)
                               ELSE Ok([d1 EXCEPT !.insert = Str(
                                      <<"(">> \o Join(fields, <<",", " ">>)
                                        \o <<")", " ", "VALUES", " ">>
                                        \o Join([i \in DOMAIN items |->
                                                   InsertLine(items[i], fields)],
                                                <<",", "\n">>))])

\* delete() without the guard on the query type
delete_noGuard(data) == Ok([data EXCEPT !.type = "DELETE"])

\* delete()
delete(data) ==
  IF data.type # "" THEN AssertionError(data)
  ELSE Ok([data EXCEPT !.type = "DELETE"])

\* sql(sql), sql a string
sql(data, tpl) ==
  IF data.type # "" THEN AssertionError(data)
  ELSE Ok([data EXCEPT
             !.type = "CUSTOM",
             !.sql = Str(sqlFormatObject(tpl, NamedValues(<<
                        <<"orderBy", Str(data.orderBy)>>,
                        <<"limit", Str(data.limit)>>,
                        <<"fields", Str(data.fields)>>,
                        <<"skipRows", Num(data.skipRows)>>,
                        <<"limitRows", Num(data.limitRows)>> >>)))])

\* order(tpl, values) adding the fields to those of the calls before
order_appends(data, tpl, values) ==
  LET f == format(tpl, values)
  IN  IF Truthy(values) /\ ~f.ok THEN AssertionError(data)
      ELSE LET new == IF Truthy(values) THEN f.s ELSE tpl
               orderFields == IF data.orderFields = <<>> THEN new
                              ELSE data.orderFields \o <<",", " ">> \o new
           IN  Ok([data EXCEPT !.orderFields = orderFields,
                               !.orderBy = <<"ORDER", " ", "BY", " ">> \o orderFields])

\* order(tpl, values), tpl a string
order(data, tpl, values) ==
  LET f == format(tpl, values)
  IN  IF Truthy(values) /\ ~f.ok THEN AssertionError(data)
      ELSE LET orderFields == IF Truthy(values) THEN f.s ELSE tpl
           IN  Ok([data EXCEPT !.orderFields = orderFields,
                               !.orderBy = <<"ORDER", " ", "BY", " ">> \o orderFields])

\* this._data.skip: no statement assigns the property
DataSkip == Undefined

\* skip(rows) without the assertion on rows
skip_noAssert(data, rows) ==
  Ok([data EXCEPT !.skipRows = rows,
                  !.limit = sqlLimitString(DataSkip, Str(data.limit))])

\* skip(rows), rows a number
skip(data, rows) ==
  IF ~(rows >= 0) THEN AssertionError(data)
  ELSE Ok([data EXCEPT !.skipRows = rows,
                       !.limit = sqlLimitString(DataSkip, Str(data.limit))])

\* limit(rows) storing the rows in the property skip(rows) stores them in
limit_storesSkipRows(data, rows) ==
  IF ~(rows >= 0) THEN AssertionError(data)
  ELSE Ok([data EXCEPT !.skipRows = rows,
                       !.limit = sqlLimitString(DataSkip, Str(data.limit))])

\* limit(rows), rows a number
limit(data, rows) ==
  IF ~(rows >= 0) THEN AssertionError(data)
  ELSE Ok([data EXCEPT !.limitRows = rows,
                       !.limit = sqlLimitString(DataSkip, Str(data.limit))])

\* the local constant limit of build()
BuildLimit(data) ==
  IF data.limitRows > 0 THEN <<"LIMIT", " ", ToString(data.limitRows)>> ELSE <<>>

\* the text build() puts where the LIMIT clause of a statement of the kind goes
LimitSegment(data, kind) ==
  IF kind = "SELECT" THEN data.limit ELSE BuildLimit(data)

\* the value of the local variable sql of build() after the switch
BuildSql(data, table) ==
  LET t == sqlEscapeId(table)
      w == Join(data.conditions, <<" ", "AND", " ">>)
  IN  CASE data.type = "SELECT" ->
             Str(<<"SELECT", " ">> \o data.fields \o <<" ", "FROM", " ">> \o t
                   \o <<" ", "WHERE", " ">> \o w \o Blank \o data.orderBy
                   \o Blank \o LimitSegment(data, "SELECT"))
        [] data.type = "INSERT" ->
             Str(<<"INSERT", " ", "INTO", " ">> \o t \o Blank
                   \o Interpolate(data.insert))
        [] data.type = "UPDATE" ->
             Str(<<"UPDATE", " ">> \o t \o <<" ", "SET", " ">>
                   \o Interpolate(data.update) \o <<" ", "WHERE", " ">> \o w
                   \o Blank \o LimitSegment(data, "UPDATE"))
        [] data.type = "DELETE" ->
             Str(<<"DELETE", " ", "FROM", " ">> \o t \o <<" ", "WHERE", " ">> \o w
                   \o Blank \o LimitSegment(data, "DELETE"))
        [] data.type = "CUSTOM" -> data.sql
        [] OTHER -> Undefined

\* build() with sql initialised to the empty string and no default case
build_noDefault(data, table) ==
  IF data.type \notin {"SELECT", "INSERT", "UPDATE", "DELETE", "CUSTOM"}
    THEN [result |-> "ok", out |-> << <<>> >>]
  ELSE IF BuildSql(data, table).t # "str"
    THEN [result |-> "TypeError", out |-> <<>>]
    ELSE [result |-> "ok", out |-> <<Trim(BuildSql(data, table).s)>>]

\* build(): the outcome and, on success, the returned text
build(data, table) ==
  IF data.type \notin {"SELECT", "INSERT", "UPDATE", "DELETE", "CUSTOM"}
    THEN [result |-> "Error", out |-> <<>>]
  ELSE IF BuildSql(data, table).t # "str"
    THEN [result |-> "TypeError", out |-> <<>>]
    ELSE [result |-> "ok", out |-> <<Trim(BuildSql(data, table).s)>>]

\* exec(callback) calling the callback with an empty text when build() fails
exec_swallowsBuildError(data, table, callback) ==
  IF ~Truthy(callback) THEN [result |-> "AssertionError", calls |-> <<>>]
  ELSE IF build(data, table).result # "ok"
    THEN [result |-> "ok", calls |-> << <<>> >>]
    ELSE [result |-> "ok", calls |-> build(data, table).out]

\* exec(callback): the outcome and the texts this._execCallback was called with
exec(data, table, callback) ==
  IF ~Truthy(callback) THEN [result |-> "AssertionError", calls |-> <<>>]
  ELSE IF build(data, table).result # "ok"
    THEN [result |-> build(data, table).result, calls |-> <<>>]
    ELSE [result |-> "ok", calls |-> build(data, table).out]

(* ------------------- methods the class does not define ----------------- *)

\* the names the tests call that class QueryBuilder has no method for:
\* calling one is "TypeError: query.<name> is not a function" in every state
UndefinedMethods == {"count", "set", "fields", "options", "and"}

\* query.<name>(...args) for a name in UndefinedMethods
callUndefined(data, name, args) == TypeError(data)

(* ------------------------------- inputs ------------------------------- *)

ObjAB == Obj(<< <<"a", Num(123)>>, <<"b", Num(456)>> >>)

ObjA == Obj(<< <<"a", Num(123)>> >>)

ObjB == Obj(<< <<"b", Num(456)>> >>)

Tables == {"test1"}

ExecCallbacks == {Null, Function}

SelectArgs == { <<>>, <<"name", "age">>, <<"">> }

WhereArgs ==
  { <<Undefined, Undefined>>,
    <<Num(5), Undefined>>,
    <<Str(<<"a", "=", "2">>), Undefined>>,
    <<Str(<<"a", "=", "?">>), Arr(<<Num(2)>>)>>,
    <<Str(<<"a", "=", "2">>), Num(5)>>,
    <<ObjAB, Undefined>>,
    <<Obj(<<>>), Undefined>> }

UpdateArgs ==
  { <<Undefined, Undefined>>,
    <<Num(5), Undefined>>,
    <<Str(<<"a", "=", "123", "+", "1">>), Undefined>>,
    <<Str(<<"a", "=", ":a", "+", "1">>), ObjA>>,
    <<ObjA, Undefined>>,
    <<ObjAB, Undefined>> }

InsertArgs ==
  { Undefined,
    Num(5),
    Arr(<<>>),
    Obj(<<>>),
    ObjAB,
    Arr(<<ObjAB, Obj(<< <<"a", Num(789)>>, <<"b", Num(110)>> >>)>>),
    Arr(<<ObjAB, ObjA>>),
    Obj(<< <<"0", Num(7)>> >>) }

SqlArgs ==
  { <<"X", " ", ":$limit">>,
    <<"S", " ", ":$fields", " ", ":$orderBy">>,
    <<"T", " ", ":limitRows">> }

OrderArgs ==
  { << <<"id">>, Undefined >>,
    << <<"f", " ", "?">>, Arr(<<Num(1)>>) >>,
    << <<"id">>, Num(5) >> }

Rows == -1 .. MaxRows

\* the options objects given to the constructor
ConstructorArgs ==
  [ table : {Str(<<t>>) : t \in Tables} \cup {Undefined, Str(<<>>), Num(5)},
    exec : ExecCallbacks \cup {Undefined, Num(0), Num(5)} ]

\* the calls of the tests to methods the class does not define
UndefinedCalls ==
  { <<"count", <<"c">> >>,
    <<"set", <<ObjB>> >>,
    <<"fields", <<"a", "b", "c">> >>,
    <<"options", <<Obj(<< <<"skip", Num(1)>>, <<"limit", Num(2)>> >>)>> >>,
    <<"and", <<ObjB>> >>,
    <<"and", <<Obj(<<>>)>> >> }

(* ------------------------------- actions ------------------------------ *)

\* the constructor returned a builder
Constructed == ~(lastCall.op = "constructor" /\ lastCall.result # "ok")

\* a call of a method that returns this: the accumulator and the outcome
Called(op, args, r) ==
  /\ Constructed
  /\ d' = r.d
  /\ lastCall' = [op |-> op, args |-> args, result |-> r.result]
  /\ returned' = <<>>
  /\ execArgs' = <<>>
  /\ UNCHANGED <<tableName, execCallback>>

Init ==
  \E options \in ConstructorArgs :
    /\ tableName = constructor(options).tableName
    /\ execCallback = constructor(options).execCallback
    /\ d = InitialData
    /\ lastCall = [op |-> "constructor", args |-> <<options>>,
                   result |-> constructor(options).result]
    /\ returned = <<>>
    /\ execArgs = <<>>
    /\ sqlArg = <<>>
    /\ orderedBefore = FALSE

Where ==
  \E a \in WhereArgs :
    /\ Len(where(d, a[1], a[2]).d.conditions) <= MaxConditions
    /\ Called("where", a, where(d, a[1], a[2]))
    /\ UNCHANGED <<sqlArg, orderedBefore>>

Select ==
  \E a \in SelectArgs :
    /\ Called("select", a, select(d, a))
    /\ UNCHANGED <<sqlArg, orderedBefore>>

Update ==
  \E a \in UpdateArgs :
    /\ Called("update", a, update(d, a[1], a[2]))
    /\ UNCHANGED <<sqlArg, orderedBefore>>

Insert ==
  \E a \in InsertArgs :
    /\ Called("insert", <<a>>, insert(d, a))
    /\ UNCHANGED <<sqlArg, orderedBefore>>

Delete ==
  /\ Called("delete", <<>>, delete(d))
  /\ UNCHANGED <<sqlArg, orderedBefore>>

Sql ==
  \E a \in SqlArgs :
    /\ Called("sql", <<a>>, sql(d, a))
    /\ sqlArg' = IF d.type = "" THEN <<a>> ELSE sqlArg
    /\ UNCHANGED orderedBefore

Order ==
  \E a \in OrderArgs :
    /\ Called("order", a, order(d, a[1], a[2]))
    /\ orderedBefore' = IF order(d, a[1], a[2]).result = "ok"
                          THEN d.orderBy # <<>> ELSE orderedBefore
    /\ UNCHANGED sqlArg

Skip ==
  \E rows \in Rows :
    /\ Called("skip", <<rows>>, skip(d, rows))
    /\ UNCHANGED <<sqlArg, orderedBefore>>

Limit ==
  \E rows \in Rows :
    /\ Called("limit", <<rows>>, limit(d, rows))
    /\ UNCHANGED <<sqlArg, orderedBefore>>

\* build() leaving the builder as it is after construction
Build_resetsBuilder ==
  /\ Constructed
  /\ lastCall' = [op |-> "build", args |-> <<>>, result |-> build(d, tableName).result]
  /\ returned' = build(d, tableName).out
  /\ execArgs' = <<>>
  /\ d' = InitialData
  /\ UNCHANGED <<tableName, execCallback, sqlArg, orderedBefore>>

Build ==
  /\ Constructed
  /\ lastCall' = [op |-> "build", args |-> <<>>, result |-> build(d, tableName).result]
  /\ returned' = build(d, tableName).out
  /\ execArgs' = <<>>
  /\ UNCHANGED <<tableName, execCallback, d, sqlArg, orderedBefore>>

\* exec(callback): the callback of the builder is called with build()'s text
Exec ==
  /\ Constructed
  /\ lastCall' = [op |-> "exec", args |-> <<>>,
                  result |-> exec(d, tableName, execCallback).result]
  /\ execArgs' = exec(d, tableName, execCallback).calls
  /\ returned' = <<>>
  /\ UNCHANGED <<tableName, execCallback, d, sqlArg, orderedBefore>>

CallUndefined ==
  \E c \in UndefinedCalls :
    /\ c[1] \in UndefinedMethods
    /\ Called(c[1], c[2], callUndefined(d, c[1], c[2]))
    /\ UNCHANGED <<sqlArg, orderedBefore>>

Next ==
  \/ Where
  \/ Select
  \/ Update
  \/ Insert
  \/ Delete
  \/ Sql
  \/ Order
  \/ Skip
  \/ Limit
  \/ Build
  \/ Exec
  \/ CallUndefined

Spec == Init /\ [][Next]_vars

(* ------------------------------ properties ---------------------------- *)

Establishing == {"select", "count", "insert", "update", "delete", "sql"}

\* sub occurs in text as a run of consecutive pieces
Contains(text, sub) ==
  \E i \in 0 .. (Len(text) - Len(sub)) : SubSeq(text, i + 1, i + Len(sub)) = sub

\* C1: once the query type is set, every later call of select, count,
\* insert, update, delete or sql fails and the query type stays what it was
C1_KindSetOnce ==
  [][d.type # "" =>
       /\ d'.type = d.type
       /\ lastCall'.op \in Establishing => lastCall'.result # "ok"]_vars

\* a SELECT builder on which delete() was called: the call failed
C1_Witness ==
  /\ d.type = "SELECT"
  /\ lastCall.op = "delete"
  /\ lastCall.result = "AssertionError"

\* the limit clause of section 4.3 for the current skipRows and limitRows
SpecLimitClause(data) == sqlLimitString(Num(data.skipRows), Num(data.limitRows))

\* a custom template with :$fields, :$orderBy and :$limit taken from data
ResolveAtBuild(tpl, data) ==
  Flatten([i \in DOMAIN tpl |->
             CASE tpl[i] = ":$fields" -> data.fields
               [] tpl[i] = ":$orderBy" -> data.orderBy
               [] tpl[i] = ":$limit" -> SpecLimitClause(data)
               [] OTHER -> <<tpl[i]>>])

\* C2: build() of a CUSTOM statement returns the template given to sql()
\* with :$fields, :$orderBy and :$limit resolved from the state the builder
\* has when build() is called
C2_PlaceholdersResolvedAtBuild ==
  (/\ lastCall.op = "build" /\ d.type = "CUSTOM" /\ sqlArg # <<>>
   /\ \E i \in DOMAIN sqlArg[1] : sqlArg[1][i] \in {":$fields", ":$orderBy", ":$limit"}) =>
    /\ lastCall.result = "ok"
    /\ returned = <<Trim(ResolveAtBuild(sqlArg[1], d))>>

\* C3: the stored LIMIT clause is the function of section 4.3 of the current
\* skipRows and limitRows
C3_LimitClauseCurrent == d.limit = SpecLimitClause(d)

\* C4: skip(n) then limit(m) and limit(m) then skip(n) leave the same
\* accumulator, the same LIMIT clause and the same build() outcome
C4_PaginationCommutes ==
  \A n, m \in 0 .. MaxRows :
    LET sl == limit(skip(d, n).d, m)
        ls == skip(limit(d, m).d, n)
    IN  /\ sl.result = "ok" /\ ls.result = "ok"
        /\ sl.d.limit = ls.d.limit
        /\ sl.d = ls.d
        /\ \A kind \in {"SELECT", "UPDATE", "DELETE"} :
             LimitSegment(sl.d, kind) = LimitSegment(ls.d, kind)
        /\ build(sl.d, tableName) = build(ls.d, tableName)

\* a statement on which skip and then limit were called with rows > 0
C4_Witness ==
  /\ d.type # ""
  /\ lastCall.op = "limit" /\ lastCall.result = "ok"
  /\ d.skipRows > 0 /\ d.limitRows > 0

\* C5: build() gives an UPDATE and a DELETE statement the LIMIT text it gives
\* a SELECT statement with the same skipRows and limitRows
C5_SameLimitRule ==
  d.type \in {"UPDATE", "DELETE"} =>
    LimitSegment(d, d.type) = LimitSegment(d, "SELECT")

\* C6: build() on a builder whose query type is not set fails and returns
\* no text
C6_BuildUnsetFails ==
  (lastCall.op = "build" /\ d.type = "") =>
    (lastCall.result # "ok" /\ returned = <<>>)

\* build() was called without a query type, after where, order, skip and limit
C6_Witness ==
  /\ lastCall.op = "build" /\ d.type = ""
  /\ d.conditions # <<>> /\ d.orderBy # <<>>
  /\ d.skipRows > 0 /\ d.limitRows > 0

\* C7: the text of a SELECT, UPDATE or DELETE statement has no WHERE when
\* there is no condition, and otherwise has WHERE once, followed by the
\* conditions in the order they were added, joined by AND
C7_WhereClause ==
  (lastCall.op = "build" /\ lastCall.result = "ok"
     /\ d.type \in {"SELECT", "UPDATE", "DELETE"}) =>
    LET text == returned[1]
    IN  IF d.conditions = <<>>
          THEN \A i \in DOMAIN text : text[i] # "WHERE"
          ELSE /\ Cardinality({i \in DOMAIN text : text[i] = "WHERE"}) = 1
               /\ Contains(text, <<"WHERE", " ">>
                                   \o Join(d.conditions, <<" ", "AND", " ">>))

\* build() of an UPDATE statement fails exactly when there is no update text
UpdateBuildFailsIffEmpty ==
  (lastCall.op = "build" /\ d.type = "UPDATE") =>
    (lastCall.result # "ok" <=> d.update = Null)

\* C8: update() without a payload succeeds on a fresh builder and sets the
\* query type to UPDATE with no update text; build() of an UPDATE statement
\* fails if and only if there is no update text
C8_UpdateWithoutPayload ==
  [][/\ (d.type = "" /\ lastCall'.op = "update" /\ lastCall'.args[1] = Undefined) =>
          (lastCall'.result = "ok" /\ d'.type = "UPDATE" /\ d'.update = Null)
     /\ UpdateBuildFailsIffEmpty']_vars

\* C9: set(data) succeeds and keeps the query type when it is UPDATE, and
\* otherwise fails and leaves the accumulator as it was
C9_SetRequiresUpdate ==
  [][lastCall'.op = "set" =>
       IF d.type = "UPDATE"
         THEN lastCall'.result = "ok" /\ d'.type = "UPDATE"
         ELSE lastCall'.result # "ok" /\ d' = d]_vars

\* C10: set(p) on an UPDATE statement appends the assignments of p to the
\* update text, after those already there
C10_SetAppends ==
  [][(lastCall'.op = "set" /\ d.type = "UPDATE" /\ d.update.t = "str") =>
       d'.update = Str(d.update.s \o <<",", " ">>
                         \o sqlUpdateString(lastCall'.args[1].pairs))]_vars

\* text begins with the pieces of prefix
StartsWith(text, prefix) ==
  Len(text) >= Len(prefix) /\ SubSeq(text, 1, Len(prefix)) = prefix

\* data is one mapping or a non-empty sequence of mappings
IsMappingData(dat) ==
  \/ dat.t = "obj"
  \/ /\ dat.t = "arr" /\ dat.items # <<>>
     /\ \A j \in DOMAIN dat.items : dat.items[j].t = "obj"

\* some item after the first lacks a key of the first item
MissingKey(dat) ==
  LET items == InsertItems(dat)
  IN  \E j \in 2 .. Len(items) : \E i \in DOMAIN items[1].pairs :
        ~HasKey(items[j].pairs, items[1].pairs[i][1])

\* the INSERT statement of section 4.4 for data: the columns of the first
\* item, then one tuple per item in the column order of the first item
SpecInsertStatement(table, dat) ==
  LET items == InsertItems(dat)
      cols == Keys(items[1].pairs)
  IN  <<"INSERT", " ", "INTO", " ">> \o sqlEscapeId(table) \o <<" ", "(">>
        \o Join([i \in DOMAIN cols |-> sqlEscapeId(cols[i])], <<",", " ">>)
        \o <<")", " ", "VALUES", " ">>
        \o Join([j \in DOMAIN items |->
                   <<"(">> \o Join([i \in DOMAIN cols |->
                                     sqlEscape(Get(items[j].pairs, cols[i]))],
                                   <<",", " ">>) \o <<")">>],
                <<",", "\n">>)

\* C11: insert(data) with mappings that all have the keys of the first one
\* succeeds, and build() then returns the columns of the first item followed
\* by one tuple per item
C11_InsertRenders ==
  [][(/\ d.type = "" /\ lastCall'.op = "insert"
      /\ IsMappingData(lastCall'.args[1]) /\ ~MissingKey(lastCall'.args[1])) =>
       /\ lastCall'.result = "ok"
       /\ build(d', tableName) =
            [result |-> "ok",
             out |-> <<SpecInsertStatement(tableName, lastCall'.args[1])>>]]_vars

\* C12: insert(data) fails at the call exactly when an item after the first
\* lacks a key of the first item, and build() then returns no INSERT text
C12_InsertFailsEagerly ==
  [][(d.type = "" /\ lastCall'.op = "insert" /\ IsMappingData(lastCall'.args[1])) =>
       /\ lastCall'.result # "ok" <=> MissingKey(lastCall'.args[1])
       /\ MissingKey(lastCall'.args[1]) => build(d', tableName).result # "ok"]_vars

\* C13: exec() calls the execution callback once, with the text of build(),
\* when there is a callback and build() succeeds; otherwise exec() fails and
\* the callback is not called
C13_ExecCallsOnce ==
  lastCall.op = "exec" =>
    IF Truthy(execCallback) /\ build(d, tableName).result = "ok"
      THEN lastCall.result = "ok" /\ execArgs = build(d, tableName).out
                                  /\ Len(execArgs) = 1
      ELSE lastCall.result # "ok" /\ execArgs = <<>>

\* exec() passed the text of a statement to the callback
C13_Witness ==
  /\ lastCall.op = "exec" /\ lastCall.result = "ok"
  /\ d.type = "DELETE" /\ d.conditions # <<>>
  /\ Len(execArgs) = 1

\* C14: after select() without columns build() renders the projection as *,
\* and fields(c1..ck) on a SELECT statement makes the projection those columns
C14_ProjectionDefault ==
  [][/\ (d.type = "" /\ lastCall'.op = "select" /\ lastCall'.args = <<>>) =>
          /\ lastCall'.result = "ok"
          /\ build(d', tableName).result = "ok"
          /\ StartsWith(build(d', tableName).out[1],
                        <<"SELECT", " ", "*", " ", "FROM">>)
     /\ (d.type = "SELECT" /\ lastCall'.op = "fields") =>
          /\ lastCall'.result = "ok"
          /\ d'.fields = Join([i \in DOMAIN lastCall'.args |->
                                 sqlEscapeId(lastCall'.args[i])], <<",", " ">>)]_vars

\* the accumulator after fields, order, skip and limit are called, in that
\* order, for the options that are present in the mapping
OptionsApplied(data, pairs) ==
  LET d1 == IF HasKey(pairs, "fields")
              THEN [data EXCEPT !.fields =
                      Join([i \in DOMAIN Get(pairs, "fields").items |->
                              sqlEscapeId(Get(pairs, "fields").items[i].s[1])],
                           <<",", " ">>)]
              ELSE data
      d2 == IF HasKey(pairs, "order")
              THEN order(d1, Get(pairs, "order").s, Undefined).d ELSE d1
      d3 == IF HasKey(pairs, "skip") THEN skip(d2, Get(pairs, "skip").v).d ELSE d2
  IN  IF HasKey(pairs, "limit") THEN limit(d3, Get(pairs, "limit").v).d ELSE d3

\* C15: options(o) leaves the accumulator as the calls of fields, order, skip
\* and limit for the options present in o leave it
C15_OptionsAsCalls ==
  [][lastCall'.op = "options" =>
       /\ lastCall'.result = "ok"
       /\ d' = OptionsApplied(d, lastCall'.args[1].pairs)]_vars

\* C16: after order() the ORDER BY clause is the one a fresh builder gets from
\* the same call, it is the only one build() renders, and no other call
\* changes it
C16_OrderOverwrites ==
  [][IF lastCall'.op = "order" /\ lastCall'.result = "ok"
       THEN LET fresh == order(InitialData, lastCall'.args[1], lastCall'.args[2]).d
            IN  /\ d'.orderBy = fresh.orderBy
                /\ d'.orderFields = fresh.orderFields
                /\ d'.type = "SELECT" =>
                     LET text == build(d', tableName).out[1]
                     IN  /\ Contains(text, fresh.orderBy)
                         /\ Cardinality({i \in DOMAIN text : text[i] = "ORDER"}) = 1
       ELSE d'.orderBy = d.orderBy /\ d'.orderFields = d.orderFields]_vars

\* order() succeeded on a SELECT statement that already had an ORDER BY clause
C16_Witness ==
  /\ lastCall.op = "order" /\ lastCall.result = "ok"
  /\ orderedBefore
  /\ d.type = "SELECT"

\* C17: count(alias) makes a COUNT statement that build() renders as
\* SELECT COUNT(*) AS alias FROM table, without an ORDER BY segment
C17_CountStatement ==
  [][(d.type = "" /\ lastCall'.op = "count") =>
       /\ lastCall'.result = "ok"
       /\ d'.type = "COUNT"
       /\ build(d', tableName).result = "ok"
       /\ LET text == build(d', tableName).out[1]
          IN  /\ StartsWith(text, <<"SELECT", " ", "COUNT(*)", " ", "AS", " ">>
                                    \o sqlEscapeId(lastCall'.args[1])
                                    \o <<" ", "FROM", " ">> \o sqlEscapeId(tableName))
              /\ \A i \in DOMAIN text : text[i] # "ORDER"]_vars

\* C18: skip(n) and limit(n) with n < 0 fail and leave the accumulator as it
\* was, and skipRows and limitRows are never negative
C18_RowsNeverNegative ==
  [][/\ (lastCall'.op \in {"skip", "limit"} /\ lastCall'.args[1] < 0) =>
          (lastCall'.result # "ok" /\ d' = d)
     /\ d'.skipRows >= 0 /\ d'.limitRows >= 0]_vars

\* skip(-1) failed on a builder that has rows to skip and a limit
C18_Witness ==
  /\ lastCall.op = "skip" /\ lastCall.args[1] = -1
  /\ lastCall.result = "AssertionError"
  /\ d.skipRows > 0 /\ d.limitRows > 0

\* the options have a value for exec
ExecProvided(options) == options.exec \notin {Undefined, Null}

\* C19 as stated: construction fails exactly when table is missing, empty or
\* not a string, or exec is provided and not a function, whatever value exec
\* has; a constructed builder has a table name that is not empty, and no
\* call changes the table name or the execution callback
C19_Construction ==
  /\ [](lastCall.op = "constructor" =>
          LET options == lastCall.args[1]
          IN  /\ lastCall.result # "ok" <=>
                   \/ ~Truthy(options.table)
                   \/ TypeOf(options.table) # "string"
                   \/ ExecProvided(options) /\ TypeOf(options.exec) # "function"
              /\ lastCall.result = "ok" => tableName # "")
  /\ [][tableName' = tableName /\ execCallback' = execCallback]_vars

\* C19: construction fails exactly when table is missing, empty or not a
\* string, or exec is a truthy value that is not a function; an exec that is
\* falsy counts as not provided and the builder has no callback; a
\* constructed builder has a table name that is not empty, and no call
\* changes the table name or the execution callback
C19_ConstructionAmended ==
  /\ [](lastCall.op = "constructor" =>
          LET options == lastCall.args[1]
          IN  /\ lastCall.result # "ok" <=>
                   \/ ~Truthy(options.table)
                   \/ TypeOf(options.table) # "string"
                   \/ Truthy(options.exec) /\ TypeOf(options.exec) # "function"
              /\ (lastCall.result = "ok" /\ ~Truthy(options.exec)) =>
                   execCallback = Null
              /\ lastCall.result = "ok" => tableName # "")
  /\ [][tableName' = tableName /\ execCallback' = execCallback]_vars

\* construction failed for an exec that is a number other than 0
C19_Witness ==
  /\ lastCall.op = "constructor" /\ lastCall.result = "AssertionError"
  /\ lastCall.args[1].table = Str(<<"test1">>)
  /\ lastCall.args[1].exec = Num(5)

\* C20: where and and with a mapping without keys succeed and leave the
\* accumulator as it was
C20_EmptyConditionNoop ==
  [][(lastCall'.op \in {"where", "and"} /\ lastCall'.args[1] = Obj(<<>>)) =>
       (lastCall'.result = "ok" /\ d' = d)]_vars

\* the fixed head of a SELECT, UPDATE or DELETE statement: the text before
\* the WHERE segment
SpecHead(data, table) ==
  CASE data.type = "SELECT" ->
         <<"SELECT", " ">> \o data.fields \o <<" ", "FROM", " ">> \o sqlEscapeId(table)
    [] data.type = "UPDATE" ->
         <<"UPDATE", " ">> \o sqlEscapeId(table) \o <<" ", "SET", " ">>
           \o Interpolate(data.update)
    [] data.type = "DELETE" ->
         <<"DELETE", " ", "FROM", " ">> \o sqlEscapeId(table)

\* the WHERE segment: empty when there is no condition
SpecWhereSegment(data) ==
  IF data.conditions = <<>> THEN <<>>
  ELSE <<"WHERE", " ">> \o Join(data.conditions, <<" ", "AND", " ">>)

\* the segments of a SELECT, UPDATE or DELETE statement, in order; the LIMIT
\* segment is the text the builder holds for a statement of the kind
SpecSegments(data, table) ==
  IF data.type = "SELECT"
    THEN <<SpecHead(data, table), SpecWhereSegment(data), data.orderBy,
           LimitSegment(data, "SELECT")>>
    ELSE <<SpecHead(data, table), SpecWhereSegment(data),
           LimitSegment(data, data.type)>>

\* C21: build() of a SELECT, UPDATE or DELETE statement returns the head and
\* the WHERE, ORDER BY (SELECT only) and LIMIT segments joined by one space
\* each and trimmed, where a segment that is absent is the empty text
C21_SegmentsJoined ==
  (lastCall.op = "build" /\ lastCall.result = "ok"
     /\ d.type \in {"SELECT", "UPDATE", "DELETE"}) =>
    returned = <<Trim(Join(SpecSegments(d, tableName), Blank))>>

\* the calls that establish a SELECT, UPDATE or DELETE statement
KindCalls ==
  {<<"select", a>> : a \in SelectArgs} \cup {<<"update", a>> : a \in UpdateArgs}
    \cup {<<"delete", <<>>>>}

\* the calls of where, order, skip and limit
ModifierCalls ==
  {<<"where", a>> : a \in WhereArgs} \cup {<<"order", a>> : a \in OrderArgs}
    \cup {<<"skip", <<rows>>>> : rows \in Rows}
    \cup {<<"limit", <<rows>>>> : rows \in Rows}

\* the outcome of one call on the accumulator data
Apply(data, call) ==
  CASE call[1] = "select" -> select(data, call[2])
    [] call[1] = "update" -> update(data, call[2][1], call[2][2])
    [] call[1] = "delete" -> delete(data)
    [] call[1] = "where" -> where(data, call[2][1], call[2][2])
    [] call[1] = "order" -> order(data, call[2][1], call[2][2])
    [] call[1] = "skip" -> skip(data, call[2][1])
    [] call[1] = "limit" -> limit(data, call[2][1])

\* what where, order, skip and limit have accumulated
Modifiers(data) ==
  <<data.conditions, data.orderFields, data.orderBy, data.skipRows,
    data.limitRows, data.limit>>

\* C22: on a builder without a query type, a call of select, update or
\* delete and a call of where, order, skip or limit give the same outcomes,
\* the same accumulator and the same build() result in either order; and a
\* call of select, update or delete keeps what the modifiers accumulated
C22_KindPositionFree ==
  /\ []((Constructed /\ d.type = "") =>
         \A e \in KindCalls : \A m \in ModifierCalls :
           LET em == Apply(Apply(d, e).d, m)
               me == Apply(Apply(d, m).d, e)
           IN  /\ em.d = me.d
               /\ em.result = Apply(d, m).result
               /\ me.result = Apply(d, e).result
               /\ build(em.d, tableName) = build(me.d, tableName))
  /\ [][(d.type = "" /\ lastCall'.op \in {"select", "update", "delete"}) =>
         Modifiers(d') = Modifiers(d)]_vars

\* select, update or delete established the statement after where, order,
\* skip and limit were called
C22_Witness ==
  /\ lastCall.op \in {"select", "update", "delete"} /\ lastCall.result = "ok"
  /\ d.type \in {"SELECT", "UPDATE", "DELETE"}
  /\ d.conditions # <<>> /\ d.orderBy # <<>>
  /\ d.skipRows > 0 /\ d.limitRows > 0

\* the arguments of a call of select, insert or update are not valid: a
\* column that is the empty string; data that is missing, not an object or an
\* empty array, or has an item that lacks a key; a payload that is a number
InvalidKindArgs(op, args) ==
  CASE op = "select" -> \E i \in DOMAIN args : args[i] = ""
    [] op = "insert" ->
         \/ args[1].t \in {"undefined", "num"}
         \/ args[1].t = "arr" /\ args[1].items = <<>>
         \/ IsMappingData(args[1]) /\ MissingKey(args[1])
    [] op = "update" -> args[1].t = "num"
    [] OTHER -> FALSE

\* C23: on a builder without a query type, a call of select, insert or
\* update with arguments that are not valid fails and leaves the accumulator
\* as it was, so the query type is still not set and delete() succeeds
C23_FailedCallNoEffect ==
  [][(d.type = "" /\ lastCall'.op \in {"select", "insert", "update"}
        /\ InvalidKindArgs(lastCall'.op, lastCall'.args)) =>
       /\ lastCall'.result # "ok"
       /\ d' = d
       /\ d'.type = ""
       /\ delete(d').result = "ok"]_vars

\* C24: build() and exec() change no field of the builder, and a build()
\* that follows a build() has the same outcome and returns the same text
C24_BuildReadOnly ==
  [][/\ lastCall'.op \in {"build", "exec"} =>
          (d' = d /\ tableName' = tableName /\ execCallback' = execCallback)
     /\ (lastCall.op = "build" /\ lastCall'.op = "build") =>
          (lastCall'.result = lastCall.result /\ returned' = returned)
     /\ lastCall'.op = "build" =>
          (lastCall'.result = build(d', tableName).result
             /\ returned' = build(d', tableName).out)]_vars

\* build() returned the text of an UPDATE statement with conditions, an
\* ORDER BY clause and rows to skip and to return
C24_Witness ==
  /\ lastCall.op = "build" /\ lastCall.result = "ok" /\ returned # <<>>
  /\ d.type = "UPDATE" /\ d.update # Null
  /\ d.conditions # <<>> /\ d.orderBy # <<>>
  /\ d.skipRows > 0 /\ d.limitRows > 0

====
